---------------------------- MODULE Spec2Model ----------------------------
(***************************************************************************)
(* Model of thc_metadata.py: a single-shot CLI that validates a token id   *)
(* and a contract address, reads tokenTraits (and, for json/blob output,   *)
(* buildSVG) from a contract over JSON-RPC, maps trait indices to names    *)
(* and prints one document on stdout.                                      *)
(*                                                                         *)
(* Python str values that the program builds from literals are TLA+        *)
(* strings; a str that comes from the network (the SVG) is a sequence of   *)
(* Unicode code points; bytes values are sequences of 0..255.              *)
(***************************************************************************)
EXTENDS Integers, Sequences, FiniteSets, TLC

VARIABLES
    pc,               \* position of main: the next step it will take
    token_id,         \* args.tokenId
    type,             \* args.type
    CONTRACT_ADDRESS, \* the configured address (env var or default)
    checksum_ok,      \* whether the EIP-55 checksum of CONTRACT_ADDRESS matches
    traits_tuple,     \* value returned by tokenTraits(token_id).call()
    attributes,       \* build_attributes(token_id, traits_tuple)
    svg,              \* value returned by buildSVG(token_id).call()
    stdout,           \* everything written to sys.stdout
    stderr,           \* everything written to sys.stderr
    exit_status,      \* the value main returns
    calls,            \* the network operations performed, in order, each with
                      \* whether it succeeded
    call,             \* a pure helper applied on its own: its name and arguments
    ret               \* the value that helper returned

vars == <<pc, token_id, type, CONTRACT_ADDRESS, checksum_ok, traits_tuple,
          attributes, svg, stdout, stderr, exit_status, calls, call, ret>>

mainVars == <<pc, token_id, type, CONTRACT_ADDRESS, checksum_ok, traits_tuple,
              attributes, svg, stdout, stderr, exit_status, calls>>

-----------------------------------------------------------------------------
(* Bounds of the model *)

\* token ids are drawn from the two ends of the valid range and from
\* 1 + TokenMargin ids outside each end
TokenMargin == 1
\* longest SVG string (in code points) the remote call returns
MaxSvgLen == 2
\* pick_trait is applied to every index in -MaxIdx .. MaxIdx
MaxIdx == 34
\* build_attributes is applied to tuples whose i-th element is within
\* AttrMargin below 0 or above the last index of the i-th table
AttrMargin == 1

-----------------------------------------------------------------------------
(* Text: characters, code points, decimal formatting *)

\* ASCII 32..95 and 97..126 in code order (code 96 cannot be written in a string)
AsciiLo == " !\"#$%&'()*+,-./0123456789:;<=>?@ABCDEFGHIJKLMNOPQRSTUVWXYZ[\\]^_"
AsciiHi == "abcdefghijklmnopqrstuvwxyz{|}~"

CharCodes ==
    {<<SubSeq(AsciiLo, i, i), 31 + i>> : i \in 1..Len(AsciiLo)} \cup
    {<<SubSeq(AsciiHi, i, i), 96 + i>> : i \in 1..Len(AsciiHi)} \cup
    {<<"\t", 9>>, <<"\n", 10>>, <<"\f", 12>>, <<"\r", 13>>}

\* ord(c) for a one-character string
Ord == [c \in {p[1] : p \in CharCodes} |-> (CHOOSE p \in CharCodes : p[1] = c)[2]]

\* chr(n) for the code of a character above
Chr == [n \in {p[2] : p \in CharCodes} |-> (CHOOSE p \in CharCodes : p[2] = n)[1]]

CharAt(s, i) == SubSeq(s, i, i)

\* the code points of a str written as a literal
CodePoints(s) == [i \in 1..Len(s) |-> Ord[CharAt(s, i)]]

StartsWith(s, p) == Len(s) >= Len(p) /\ SubSeq(s, 1, Len(p)) = p
EndsWith(s, p) == Len(s) >= Len(p) /\ SubSeq(s, Len(s) - Len(p) + 1, Len(s)) = p
Contains(s, p) == \E i \in 1..(Len(s) - Len(p) + 1) : SubSeq(s, i, i + Len(p) - 1) = p

DecimalDigits == "0123456789"

RECURSIVE NatToStr(_)
NatToStr(n) ==
    IF n < 10 THEN CharAt(DecimalDigits, n + 1)
    ELSE NatToStr(n \div 10) \o CharAt(DecimalDigits, (n % 10) + 1)

\* format(n, "") as an f-string field does it: decimal, "-" for negatives
IntToStr(n) == IF n < 0 THEN "-" \o NatToStr(-n) ELSE NatToStr(n)

-----------------------------------------------------------------------------
(* CONFIG and TRAITS *)

MIN_TOKEN_ID == 1
MAX_TOKEN_ID == 2222

BACKGROUND_TRAITS ==
    <<"Trade", "Mint", "Dark", "Forest", "Coral", "Olive", "Sage", "Aqua">>

FUR_TRAITS ==
    <<"Alien", "Brown", "Tiger", "Gold", "Gray", "Robot", "White", "Zombie">>

EYE_TRAITS ==
    <<"None", "3D", "Blindfold", "Bonzi", "Borg", "Classic", "Closed", "Cool", "Crying",
      "Gold", "Googly", "Hearts", "Mask", "Nerd", "Noggles", "Patch", "Shades", "Shocked",
      "Ski", "Stoned", "Stylish", "Vipers", "VR", "Yeeti">>

HAT_TRAITS ==
    <<"None", "Backcap", "Band", "Bandana", "Baseball", "Beanie", "Bow", "Crown", "Degen",
      "Doo", "Fez", "Flip", "Halo", "Heart", "Jeff", "Knit", "Liono", "Miner", "Mohawk",
      "Party", "Pilot", "Pirate", "Punk", "Rain", "Rekt", "Rooster", "Safari", "Santa",
      "Sombrero", "Sprout", "Tassle", "Wizard">>

SPECIAL_TRAITS ==
    <<"None", "Bubble", "Cig", "Pipe", "Puke", "Vape">>

-----------------------------------------------------------------------------
(* Helpers *)

\* what evaluating arr[idx] does when it raises
IndexError == "<IndexError>"

\* Python list subscript arr[idx]: zero-based, a negative idx counts from the
\* end, anything else raises IndexError
ListItem(arr, idx) ==
    IF 0 <= idx /\ idx < Len(arr) THEN arr[idx + 1]
    ELSE IF idx < 0 /\ -idx <= Len(arr) THEN arr[Len(arr) + idx + 1]
    ELSE IndexError

pick_trait_no_lower_check(arr, idx) ==
    IF idx >= Len(arr) THEN "Unknown(" \o IntToStr(idx) \o ")"
    ELSE ListItem(arr, idx)

pick_trait(arr, idx) ==
    IF idx < 0 \/ idx >= Len(arr) THEN "Unknown(" \o IntToStr(idx) \o ")"
    ELSE ListItem(arr, idx)

\* int(v) for the values a decoded uint256 output can be: the int itself;
\* anything int() rejects (modelled by a non-integer value) gives 0
as_int(v) == IF v \in Int THEN v ELSE 0

Attribute(trait_type, value) == [trait_type |-> trait_type, value |-> value]

build_attributes_swapped(tid, tt) ==
    <<Attribute("Background", pick_trait(BACKGROUND_TRAITS, as_int(tt[1]))),
      Attribute("Fur", pick_trait(FUR_TRAITS, as_int(tt[2]))),
      Attribute("Eyes", pick_trait(EYE_TRAITS, as_int(tt[4]))),
      Attribute("Hat", pick_trait(HAT_TRAITS, as_int(tt[3]))),
      Attribute("Special", pick_trait(SPECIAL_TRAITS, as_int(tt[5])))>>

build_attributes(tid, tt) ==
    <<Attribute("Background", pick_trait(BACKGROUND_TRAITS, as_int(tt[1]))),
      Attribute("Fur", pick_trait(FUR_TRAITS, as_int(tt[2]))),
      Attribute("Eyes", pick_trait(EYE_TRAITS, as_int(tt[3]))),
      Attribute("Hat", pick_trait(HAT_TRAITS, as_int(tt[4]))),
      Attribute("Special", pick_trait(SPECIAL_TRAITS, as_int(tt[5])))>>

-----------------------------------------------------------------------------
(* str.encode("utf-8"), base64.b64encode, bytes.decode("ascii") *)

\* the UTF-8 bytes of one code point (surrogates excluded: a str decoded
\* from an ABI string holds none)
Utf8Char(cp) ==
    IF cp < 128 THEN <<cp>>
    ELSE IF cp < 2048 THEN <<192 + (cp \div 64), 128 + (cp % 64)>>
    ELSE IF cp < 65536 THEN
        <<224 + (cp \div 4096), 128 + ((cp \div 64) % 64), 128 + (cp % 64)>>
    ELSE <<240 + (cp \div 262144), 128 + ((cp \div 4096) % 64),
           128 + ((cp \div 64) % 64), 128 + (cp % 64)>>

\* the bytes of code points lo..hi of cps, in order
RECURSIVE Utf8Range(_, _, _)
Utf8Range(cps, lo, hi) ==
    IF lo > hi THEN <<>>
    ELSE IF lo = hi THEN Utf8Char(cps[lo])
    ELSE Utf8Range(cps, lo, (lo + hi) \div 2) \o Utf8Range(cps, ((lo + hi) \div 2) + 1, hi)

\* str.encode("utf-8")
Utf8Encode(cps) == Utf8Range(cps, 1, Len(cps))

B64Alphabet == "ABCDEFGHIJKLMNOPQRSTUVWXYZabcdefghijklmnopqrstuvwxyz0123456789+/"

\* the ASCII code of the base64 digit for a 6-bit value
B64Digit(v) == Ord[CharAt(B64Alphabet, v + 1)]

B64Pad == Ord["="]

\* the 4 digits of the g-th group of 3 bytes; a final group of 1 or 2 bytes
\* is padded with "="
B64Group(bs, g) ==
    LET i == 3 * g - 2
    IN  IF i = Len(bs) THEN
            <<B64Digit(bs[i] \div 4), B64Digit((bs[i] % 4) * 16), B64Pad, B64Pad>>
        ELSE IF i + 1 = Len(bs) THEN
            <<B64Digit(bs[i] \div 4),
              B64Digit((bs[i] % 4) * 16 + (bs[i + 1] \div 16)),
              B64Digit((bs[i + 1] % 16) * 4), B64Pad>>
        ELSE
            <<B64Digit(bs[i] \div 4),
              B64Digit((bs[i] % 4) * 16 + (bs[i + 1] \div 16)),
              B64Digit((bs[i + 1] % 16) * 4 + (bs[i + 2] \div 64)),
              B64Digit(bs[i + 2] % 64)>>

\* the digits of groups lo..hi, in order
RECURSIVE B64Groups(_, _, _)
B64Groups(bs, lo, hi) ==
    IF lo > hi THEN <<>>
    ELSE IF lo = hi THEN B64Group(bs, lo)
    ELSE B64Groups(bs, lo, (lo + hi) \div 2) \o B64Groups(bs, ((lo + hi) \div 2) + 1, hi)

\* base64.b64encode
b64encode(bs) == B64Groups(bs, 1, (Len(bs) + 2) \div 3)

\* the characters of bytes lo..hi, in order
RECURSIVE AsciiRange(_, _, _)
AsciiRange(bs, lo, hi) ==
    IF lo > hi THEN ""
    ELSE IF lo = hi THEN Chr[bs[lo]]
    ELSE AsciiRange(bs, lo, (lo + hi) \div 2) \o AsciiRange(bs, ((lo + hi) \div 2) + 1, hi)

\* bytes.decode("ascii")
AsciiDecode(bs) == AsciiRange(bs, 1, Len(bs))

IsAscii(cp) == cp < 128

b64_str_ascii_ignore(s) == AsciiDecode(b64encode(SelectSeq(s, IsAscii)))

b64_str(s) == AsciiDecode(b64encode(Utf8Encode(s)))

-----------------------------------------------------------------------------
(* json.dumps *)

\* the values json.dumps is given: str, int, list, and dict as its items in
\* insertion order
JStr(s) == [t |-> "str", s |-> s]
JInt(n) == [t |-> "int", n |-> n]
JList(items) == [t |-> "list", items |-> items]
JDict(items) == [t |-> "dict", items |-> items]

\* json.encoder.ESCAPE_DCT, for the characters a string here can hold
EscapeChar(c) ==
    CASE c = "\"" -> "\\\""
      [] c = "\\" -> "\\\\"
      [] c = "\n" -> "\\n"
      [] c = "\r" -> "\\r"
      [] c = "\t" -> "\\t"
      [] c = "\f" -> "\\f"
      [] OTHER -> c

\* characters lo..hi of s, each replaced by its escape
RECURSIVE EscapeRange(_, _, _)
EscapeRange(s, lo, hi) ==
    IF lo > hi THEN ""
    ELSE IF lo = hi THEN EscapeChar(CharAt(s, lo))
    ELSE EscapeRange(s, lo, (lo + hi) \div 2) \o EscapeRange(s, ((lo + hi) \div 2) + 1, hi)

\* json.encoder.py_encode_basestring (ensure_ascii=False)
encode_basestring(s) == "\"" \o EscapeRange(s, 1, Len(s)) \o "\""

RECURSIVE Spaces(_)
Spaces(n) == IF n <= 0 THEN "" ELSE " " \o Spaces(n - 1)

\* indent=None
NoIndent == [set |-> FALSE, n |-> 0]
\* indent=n
Indent(n) == [set |-> TRUE, n |-> n]

RECURSIVE JsonEncode(_, _, _, _, _)
RECURSIVE JsonListItems(_, _, _, _, _, _)
RECURSIVE JsonDictItems(_, _, _, _, _, _)

\* items i.. of a list, each after the first preceded by the item separator
\* (and, when indenting, a newline and the indentation of the next level)
JsonListItems(items, i, indent, item_separator, key_separator, level) ==
    IF i > Len(items) THEN ""
    ELSE (IF i = 1 THEN "" ELSE item_separator)
         \o (IF indent.set THEN "\n" \o Spaces(indent.n * level) ELSE "")
         \o JsonEncode(items[i], indent, item_separator, key_separator, level)
         \o JsonListItems(items, i + 1, indent, item_separator, key_separator, level)

JsonDictItems(items, i, indent, item_separator, key_separator, level) ==
    IF i > Len(items) THEN ""
    ELSE (IF i = 1 THEN "" ELSE item_separator)
         \o (IF indent.set THEN "\n" \o Spaces(indent.n * level) ELSE "")
         \o encode_basestring(items[i][1]) \o key_separator
         \o JsonEncode(items[i][2], indent, item_separator, key_separator, level)
         \o JsonDictItems(items, i + 1, indent, item_separator, key_separator, level)

\* json.encoder._make_iterencode: o at nesting depth level
JsonEncode(o, indent, item_separator, key_separator, level) ==
    CASE o.t = "str" -> encode_basestring(o.s)
      [] o.t = "int" -> IntToStr(o.n)
      [] o.t = "list" ->
            IF Len(o.items) = 0 THEN "[]"
            ELSE "[" \o JsonListItems(o.items, 1, indent, item_separator,
                                      key_separator, level + 1)
                 \o (IF indent.set THEN "\n" \o Spaces(indent.n * level) ELSE "")
                 \o "]"
      [] o.t = "dict" ->
            IF Len(o.items) = 0 THEN "{}"
            ELSE "{" \o JsonDictItems(o.items, 1, indent, item_separator,
                                      key_separator, level + 1)
                 \o (IF indent.set THEN "\n" \o Spaces(indent.n * level) ELSE "")
                 \o "}"

\* json.dumps(obj, indent=n, ensure_ascii=False): separators default to
\* (",", ": ") when indent is given
dumps_indent(obj, n) == JsonEncode(obj, Indent(n), ",", ": ", 0)

\* json.dumps(obj, ensure_ascii=False, separators=(",", ":"))
dumps_compact(obj) == JsonEncode(obj, NoIndent, ",", ":", 0)

\* an attribute dict as json.dumps sees it: its keys in insertion order
AttributeJson(a) ==
    JDict(<< <<"trait_type", JStr(a.trait_type)>>, <<"value", JStr(a.value)>> >>)

AttributesJson(attrs) == JList([i \in 1..Len(attrs) |-> AttributeJson(attrs[i])])

-----------------------------------------------------------------------------
(* The documents main prints *)

\* {"tokenId": token_id, "attributes": attributes}
traits_obj(tid, attrs) ==
    JDict(<< <<"tokenId", JInt(tid)>>, <<"attributes", AttributesJson(attrs)>> >>)

image_uri(s) == "data:image/svg+xml;base64," \o b64_str(s)

meta_obj(tid, attrs, s) ==
    JDict(<< <<"name", JStr("Tiny Hyper Cat #" \o IntToStr(tid))>>,
             <<"description", JStr("Tiny Hyper Cats live 100% onchain on Hyperliquid")>>,
             <<"attributes", AttributesJson(attrs)>>,
             <<"image", JStr(image_uri(s))>> >>)

traits_document(tid, attrs) == dumps_indent(traits_obj(tid, attrs), 2)

json_document(tid, attrs, s) == dumps_indent(meta_obj(tid, attrs, s), 2)

blob_document_pretty(tid, attrs, s) ==
    "data:application/json;base64,"
        \o AsciiDecode(b64encode(Utf8Encode(CodePoints(json_document(tid, attrs, s)))))

blob_document(tid, attrs, s) ==
    "data:application/json;base64,"
        \o AsciiDecode(b64encode(Utf8Encode(CodePoints(dumps_compact(meta_obj(tid, attrs, s))))))

-----------------------------------------------------------------------------
(* Inputs and the environment *)

\* argparse has already made tokenId an int; the first and the last valid id
\* and the ids next to them outside the range
TokenIds ==
    ((MIN_TOKEN_ID - 1 - TokenMargin)..MIN_TOKEN_ID) \cup
    (MAX_TOKEN_ID..(MAX_TOKEN_ID + 1 + TokenMargin))

\* choices=["traits", "json", "blob"], default="traits"
Types == {"traits", "json", "blob"}

DEFAULT_CONTRACT_ADDRESS == "0xCC3D60fF11a268606C6a57bD6Db74b4208f1D30c"

\* values of the CONTRACT_ADDRESS environment variable: unset (the default),
\* a lower-case address, one hex digit too many, not hex, empty
Addresses ==
    {DEFAULT_CONTRACT_ADDRESS,
     "0xcc3d60ff11a268606c6a57bd6db74b4208f1d30c",
     "0xCC3D60fF11a268606C6a57bD6Db74b4208f1D30c0",
     "0xZZ3D60fF11a268606C6a57bD6Db74b4208f1D30c",
     ""}

HexDigits == "0123456789abcdefABCDEF"
LowerHex == "0123456789abcdef"
UpperHex == "0123456789ABCDEF"

AllCharsIn(s, allowed) ==
    \A i \in 1..Len(s) : \E j \in 1..Len(allowed) : CharAt(s, i) = CharAt(allowed, j)

Remove0x(a) ==
    IF StartsWith(a, "0x") \/ StartsWith(a, "0X") THEN SubSeq(a, 3, Len(a)) ELSE a

\* the digits mix upper and lower case, so an EIP-55 checksum is meant
is_checksum_formatted(a) ==
    /\ ~AllCharsIn(Remove0x(a), LowerHex)
    /\ ~AllCharsIn(Remove0x(a), UpperHex)

\* Web3.is_address on a str: 40 hex digits after an optional 0x; when the
\* digits mix upper and lower case the EIP-55 checksum must match as well
\* (the keccak comparison is the environment's checksum_ok)
is_address(a, ck) ==
    /\ Len(Remove0x(a)) = 40
    /\ AllCharsIn(Remove0x(a), HexDigits)
    /\ is_checksum_formatted(a) => ck

\* tuples the tokenTraits output decodes to (five uint256): all first entries,
\* all last entries, one past each table, distinct small indices, far outside
TraitReplies ==
    {<<0, 0, 0, 0, 0>>,
     <<Len(BACKGROUND_TRAITS) - 1, Len(FUR_TRAITS) - 1, Len(EYE_TRAITS) - 1,
       Len(HAT_TRAITS) - 1, Len(SPECIAL_TRAITS) - 1>>,
     <<Len(BACKGROUND_TRAITS), Len(FUR_TRAITS), Len(EYE_TRAITS),
       Len(HAT_TRAITS), Len(SPECIAL_TRAITS)>>,
     <<1, 2, 3, 4, 5>>,
     <<999, 0, 999, 0, 999>>}

\* code points an SVG string is made of: "<", e acute, the euro sign, a cat face
SvgChars == {60, 233, 8364, 128049}

RECURSIVE SeqsUpTo(_, _)
SeqsUpTo(S, n) ==
    IF n = 0 THEN {<<>>}
    ELSE SeqsUpTo(S, n - 1) \cup
         {Append(q, c) : q \in {r \in SeqsUpTo(S, n - 1) : Len(r) = n - 1}, c \in S}

\* strings the buildSVG output decodes to
SvgReplies == SeqsUpTo(SvgChars, MaxSvgLen)

\* str(e) of the exception a failing call raises
ErrorTexts == {"execution reverted", "timed out"}

-----------------------------------------------------------------------------
(* Output streams *)

\* print(msg, file=f): the message, then a newline
print(stream, msg) == stream \o msg \o "\n"

ensure_stdout_newline_never(out, s) == out \o s

ensure_stdout_newline(out, s) ==
    IF EndsWith(s, "\n") THEN out \o s ELSE (out \o s) \o "\n"

-----------------------------------------------------------------------------
(* main *)

NoCall == [fn |-> "none"]

\* one network operation and its outcome
Op(name, ok) == [op |-> name, ok |-> ok]

Init ==
    /\ pc = "token_id"
    /\ token_id \in TokenIds
    /\ type \in Types
    /\ CONTRACT_ADDRESS \in Addresses
    /\ checksum_ok \in (IF is_checksum_formatted(CONTRACT_ADDRESS) THEN BOOLEAN ELSE {FALSE})
    /\ traits_tuple = <<>>
    /\ attributes = <<>>
    /\ svg = <<>>
    /\ stdout = ""
    /\ stderr = ""
    /\ exit_status = -1
    /\ calls = <<>>
    /\ call = NoCall
    /\ ret = <<>>

Return_runtime_error(n) == pc' = "done" /\ exit_status' = (IF n = 0 THEN 0 ELSE 1)

\* return n
Return(n) == pc' = "done" /\ exit_status' = n

token_id_in_range_upper_only(tid) == tid <= MAX_TOKEN_ID

token_id_in_range(tid) == ~(tid < MIN_TOKEN_ID \/ tid > MAX_TOKEN_ID)

\* (the message has an en dash between the two bounds, written "-" here)
CheckTokenId ==
    /\ pc = "token_id"
    /\ IF ~token_id_in_range(token_id)
       THEN /\ stderr' = print(stderr,
                    "ERROR: tokenId out of range. Valid range is "
                    \o IntToStr(MIN_TOKEN_ID) \o "-" \o IntToStr(MAX_TOKEN_ID)
                    \o ". Received: " \o IntToStr(token_id))
            /\ Return(2)
       ELSE /\ pc' = "address"
            /\ UNCHANGED <<stderr, exit_status>>
    /\ UNCHANGED <<token_id, type, CONTRACT_ADDRESS, checksum_ok, traits_tuple,
                   attributes, svg, stdout, calls, call, ret>>

address_accepted_always(a, ck) == TRUE

address_accepted(a, ck) == is_address(a, ck)

CheckAddress ==
    /\ pc = "address"
    /\ IF ~address_accepted(CONTRACT_ADDRESS, checksum_ok)
       THEN /\ stderr' = print(stderr,
                    "ERROR: Invalid CONTRACT_ADDRESS. Set env CONTRACT_ADDRESS or edit the script.")
            /\ Return(2)
       ELSE /\ pc' = "connect"
            /\ UNCHANGED <<stderr, exit_status>>
    /\ UNCHANGED <<token_id, type, CONTRACT_ADDRESS, checksum_ok, traits_tuple,
                   attributes, svg, stdout, calls, call, ret>>

CheckConnected_unchecked ==
    /\ pc = "connect"
    /\ \E connected \in BOOLEAN :
        /\ calls' = Append(calls, Op("is_connected", connected))
        /\ pc' = "tokenTraits"
    /\ UNCHANGED <<token_id, type, CONTRACT_ADDRESS, checksum_ok, traits_tuple,
                   attributes, svg, stdout, stderr, exit_status, call, ret>>

\* w3.is_connected(): one request to the endpoint, answered or not (the
\* message ends with the value of RPC_URL, written <RPC_URL> here)
CheckConnected ==
    /\ pc = "connect"
    /\ \E connected \in BOOLEAN :
        /\ calls' = Append(calls, Op("is_connected", connected))
        /\ IF ~connected
           THEN /\ stderr' = print(stderr, "ERROR: Could not connect to RPC: <RPC_URL>")
                /\ Return(1)
           ELSE /\ pc' = "tokenTraits"
                /\ UNCHANGED <<stderr, exit_status>>
    /\ UNCHANGED <<token_id, type, CONTRACT_ADDRESS, checksum_ok, traits_tuple,
                   attributes, svg, stdout, call, ret>>

AfterTraits_always_svg(t) == "buildSVG"

\* the step after a successful tokenTraits: straight to the output in traits
\* mode, to buildSVG otherwise
AfterTraits(t) == IF t = "traits" THEN "print_traits" ELSE "buildSVG"

\* contract.functions.tokenTraits(token_id).call(), then build_attributes
CallTokenTraits ==
    /\ pc = "tokenTraits"
    /\ \/ \E e \in ErrorTexts :
            /\ calls' = Append(calls, Op("tokenTraits", FALSE))
            /\ stderr' = print(stderr, "ERROR: tokenTraits(" \o IntToStr(token_id)
                                       \o ") call failed: " \o e)
            /\ Return(1)
            /\ UNCHANGED <<traits_tuple, attributes>>
       \/ \E tt \in TraitReplies :
            /\ calls' = Append(calls, Op("tokenTraits", TRUE))
            /\ traits_tuple' = tt
            /\ attributes' = build_attributes(token_id, tt)
            /\ pc' = AfterTraits(type)
            /\ UNCHANGED <<stderr, exit_status>>
    /\ UNCHANGED <<token_id, type, CONTRACT_ADDRESS, checksum_ok, svg, stdout,
                   call, ret>>

PrintTraits ==
    /\ pc = "print_traits"
    /\ stdout' = ensure_stdout_newline(stdout, traits_document(token_id, attributes))
    /\ Return(0)
    /\ UNCHANGED <<token_id, type, CONTRACT_ADDRESS, checksum_ok, traits_tuple,
                   attributes, svg, stderr, calls, call, ret>>

\* contract.functions.buildSVG(token_id).call()
CallBuildSVG ==
    /\ pc = "buildSVG"
    /\ \/ \E e \in ErrorTexts :
            /\ calls' = Append(calls, Op("buildSVG", FALSE))
            /\ stderr' = print(stderr, "ERROR: buildSVG(" \o IntToStr(token_id)
                                       \o ") call failed: " \o e)
            /\ Return(1)
            /\ UNCHANGED svg
       \/ \E s \in SvgReplies :
            /\ calls' = Append(calls, Op("buildSVG", TRUE))
            /\ svg' = s
            /\ pc' = "print_meta"
            /\ UNCHANGED <<stderr, exit_status>>
    /\ UNCHANGED <<token_id, type, CONTRACT_ADDRESS, checksum_ok, traits_tuple,
                   attributes, stdout, call, ret>>

PrintJson ==
    /\ pc = "print_meta"
    /\ type = "json"
    /\ stdout' = ensure_stdout_newline(stdout, json_document(token_id, attributes, svg))
    /\ Return(0)
    /\ UNCHANGED <<token_id, type, CONTRACT_ADDRESS, checksum_ok, traits_tuple,
                   attributes, svg, stderr, calls, call, ret>>

PrintBlob ==
    /\ pc = "print_meta"
    /\ type # "json"
    /\ stdout' = ensure_stdout_newline(stdout, blob_document(token_id, attributes, svg))
    /\ Return(0)
    /\ UNCHANGED <<token_id, type, CONTRACT_ADDRESS, checksum_ok, traits_tuple,
                   attributes, svg, stderr, calls, call, ret>>

Next ==
    \/ CheckTokenId
    \/ CheckAddress
    \/ CheckConnected
    \/ CallTokenTraits
    \/ PrintTraits
    \/ CallBuildSVG
    \/ PrintJson
    \/ PrintBlob

Spec == Init /\ [][Next]_vars

-----------------------------------------------------------------------------
(* The pure helpers applied on their own *)

TraitTables ==
    <<BACKGROUND_TRAITS, FUR_TRAITS, EYE_TRAITS, HAT_TRAITS, SPECIAL_TRAITS>>

\* indices pick_trait is tried on: all of -MaxIdx..MaxIdx and two far outside
PickIndices == (-MaxIdx..MaxIdx) \cup {-999, 999}

PickCalls ==
    {[fn |-> "pick_trait", arr |-> TraitTables[t], idx |-> i] :
        t \in 1..Len(TraitTables), i \in PickIndices}

\* indices around both ends of a table
EdgeIndices(arr) == (-AttrMargin..0) \cup ((Len(arr) - 1)..(Len(arr) - 1 + AttrMargin))

AttrCalls ==
    {[fn |-> "build_attributes", token_id |-> MIN_TOKEN_ID, traits_tuple |-> <<b, f, e, h, sp>>] :
        b \in EdgeIndices(BACKGROUND_TRAITS), f \in EdgeIndices(FUR_TRAITS),
        e \in EdgeIndices(EYE_TRAITS), h \in EdgeIndices(HAT_TRAITS),
        sp \in EdgeIndices(SPECIAL_TRAITS)}

InitHelpers ==
    /\ pc = "helper"
    /\ token_id = MIN_TOKEN_ID
    /\ type = "traits"
    /\ CONTRACT_ADDRESS = DEFAULT_CONTRACT_ADDRESS
    /\ checksum_ok = TRUE
    /\ traits_tuple = <<>>
    /\ attributes = <<>>
    /\ svg = <<>>
    /\ stdout = ""
    /\ stderr = ""
    /\ exit_status = -1
    /\ calls = <<>>
    /\ call \in PickCalls \cup AttrCalls
    /\ ret = <<>>

ApplyPickTrait ==
    /\ call.fn = "pick_trait"
    /\ ret = <<>>
    /\ ret' = <<pick_trait(call.arr, call.idx)>>
    /\ UNCHANGED <<mainVars, call>>

ApplyBuildAttributes ==
    /\ call.fn = "build_attributes"
    /\ ret = <<>>
    /\ ret' = <<build_attributes(call.token_id, call.traits_tuple)>>
    /\ UNCHANGED <<mainVars, call>>

NextHelpers == ApplyPickTrait \/ ApplyBuildAttributes

SpecHelpers == InitHelpers /\ [][NextHelpers]_vars

-----------------------------------------------------------------------------
(* Decoders and readers used to state the properties *)

\* the 6-bit value of a base64 digit, by its ASCII code
B64Value == [c \in {B64Digit(v) : v \in 0..63} |-> CHOOSE v \in 0..63 : B64Digit(v) = c]

\* the 1, 2 or 3 bytes the g-th group of 4 digits stands for
B64DecodeGroup(cs, g) ==
    LET i == 4 * g - 3
        v1 == B64Value[cs[i]]
        v2 == B64Value[cs[i + 1]]
    IN  IF cs[i + 2] = B64Pad THEN <<v1 * 4 + (v2 \div 16)>>
        ELSE IF cs[i + 3] = B64Pad THEN
            <<v1 * 4 + (v2 \div 16), (v2 % 16) * 16 + (B64Value[cs[i + 2]] \div 4)>>
        ELSE
            <<v1 * 4 + (v2 \div 16),
              (v2 % 16) * 16 + (B64Value[cs[i + 2]] \div 4),
              (B64Value[cs[i + 2]] % 4) * 64 + B64Value[cs[i + 3]]>>

RECURSIVE B64DecodeGroups(_, _, _)
B64DecodeGroups(cs, lo, hi) ==
    IF lo > hi THEN <<>>
    ELSE IF lo = hi THEN B64DecodeGroup(cs, lo)
    ELSE B64DecodeGroups(cs, lo, (lo + hi) \div 2)
         \o B64DecodeGroups(cs, ((lo + hi) \div 2) + 1, hi)

\* base64 decoding of a str of digits; defined when its length is a multiple of 4
B64Decodable(text) ==
    /\ Len(text) % 4 = 0
    /\ \A i \in 1..Len(text) :
          \/ Ord[CharAt(text, i)] \in DOMAIN B64Value
          \/ CharAt(text, i) = "=" /\ i >= Len(text) - 1

B64Decode(text) == B64DecodeGroups(CodePoints(text), 1, Len(text) \div 4)

\* UTF-8 decoding of well-formed bytes, from position i on
RECURSIVE Utf8DecodeFrom(_, _)
Utf8DecodeFrom(bs, i) ==
    IF i > Len(bs) THEN <<>>
    ELSE IF bs[i] < 128 THEN <<bs[i]>> \o Utf8DecodeFrom(bs, i + 1)
    ELSE IF bs[i] < 224 THEN
        <<(bs[i] - 192) * 64 + (bs[i + 1] - 128)>> \o Utf8DecodeFrom(bs, i + 2)
    ELSE IF bs[i] < 240 THEN
        <<(bs[i] - 224) * 4096 + (bs[i + 1] - 128) * 64 + (bs[i + 2] - 128)>>
            \o Utf8DecodeFrom(bs, i + 3)
    ELSE
        <<(bs[i] - 240) * 262144 + (bs[i + 1] - 128) * 4096
            + (bs[i + 2] - 128) * 64 + (bs[i + 3] - 128)>>
            \o Utf8DecodeFrom(bs, i + 4)

Utf8Decode(bs) == Utf8DecodeFrom(bs, 1)

\* one character of a JSON text read in state st ("out" of any string, "in" a
\* string, after an "esc" backslash): what is kept of it and the next state
MinifyChar(c, st) ==
    IF st = "esc" THEN [out |-> c, st |-> "in"]
    ELSE IF st = "in" THEN
        [out |-> c, st |-> IF c = "\\" THEN "esc" ELSE IF c = "\"" THEN "out" ELSE "in"]
    ELSE IF c \in {" ", "\n", "\t", "\r"} THEN [out |-> "", st |-> "out"]
    ELSE [out |-> c, st |-> IF c = "\"" THEN "in" ELSE "out"]

RECURSIVE MinifyRange(_, _, _, _)
MinifyRange(s, lo, hi, st) ==
    IF lo > hi THEN [out |-> "", st |-> st]
    ELSE IF lo = hi THEN MinifyChar(CharAt(s, lo), st)
    ELSE LET left == MinifyRange(s, lo, (lo + hi) \div 2, st)
             right == MinifyRange(s, ((lo + hi) \div 2) + 1, hi, left.st)
         IN  [out |-> left.out \o right.out, st |-> right.st]

\* a JSON text with the whitespace between its tokens removed
JsonMinify(s) == MinifyRange(s, 1, Len(s), "out").out

\* where p first occurs in s, 0 when it does not
IndexOf(s, p) ==
    IF Contains(s, p)
    THEN CHOOSE i \in 1..(Len(s) - Len(p) + 1) :
            /\ SubSeq(s, i, i + Len(p) - 1) = p
            /\ \A j \in 1..(i - 1) : SubSeq(s, j, j + Len(p) - 1) # p
    ELSE 0

\* the text that follows the first occurrence of marker in s, up to the next
\* double quote
QuotedAfter(s, marker) ==
    LET from == IndexOf(s, marker) + Len(marker)
        to == CHOOSE j \in from..Len(s) :
                /\ CharAt(s, j) = "\""
                /\ \A k \in from..(j - 1) : CharAt(s, k) # "\""
    IN  SubSeq(s, from, to - 1)

\* the names of the operations performed so far
CallNames == [i \in 1..Len(calls) |-> calls[i].op]

CountOf(name) == Cardinality({i \in 1..Len(calls) : calls[i].op = name})

Returned == pc = "done"

ValidTokenId == token_id \in 1..2222

ValidAddress == is_address(CONTRACT_ADDRESS, checksum_ok)

JsonPrefix == "data:application/json;base64,"

\* what stdout holds before its final newline
StdoutDocument == SubSeq(stdout, 1, Len(stdout) - 1)

\* the payload of the blob written to stdout
BlobPayload == SubSeq(stdout, Len(JsonPrefix) + 1, Len(stdout) - 1)

-----------------------------------------------------------------------------
(* Properties *)

\* C1: with a token id outside [1, 2222], whatever the output type and the
\* contract address, main never gets past the token-id check: no network
\* operation (is_connected, tokenTraits, buildSVG) is performed and the value
\* returned is 2.
C1_OutOfRangeTokenId ==
    ~ValidTokenId =>
        /\ calls = <<>>
        /\ pc \in {"token_id", "done"}
        /\ Returned => exit_status = 2

C1_Witness ==
    /\ token_id = 2223
    /\ type = "blob"
    /\ ValidAddress
    /\ Returned
    /\ exit_status = 2
    /\ calls = <<>>

\* C2: with a token id in range and a CONTRACT_ADDRESS that Web3.is_address
\* rejects, main never gets past the address check: no network operation is
\* performed, nothing is written to stdout and the value returned is 2.
C2_MalformedAddress ==
    (ValidTokenId /\ ~ValidAddress) =>
        /\ calls = <<>>
        /\ stdout = ""
        /\ pc \in {"token_id", "address", "done"}
        /\ Returned => exit_status = 2

C2_Witness ==
    /\ token_id = 1
    /\ CONTRACT_ADDRESS = "0xCC3D60fF11a268606C6a57bD6Db74b4208f1D30c0"
    /\ Returned
    /\ exit_status = 2
    /\ calls = <<>>
    /\ stdout = ""

TokenTraitsSucceeded == \E i \in 1..Len(calls) : calls[i] = Op("tokenTraits", TRUE)

\* C3: in traits mode buildSVG is never called, whether tokenTraits succeeds
\* or fails; once tokenTraits has succeeded the only step left is the output,
\* and the run ends with 0 after exactly one contract call.
C3_TraitsModeSkipsBuildSVG ==
    type = "traits" =>
        /\ CountOf("buildSVG") = 0
        /\ pc # "buildSVG"
        /\ TokenTraitsSucceeded =>
            /\ pc \in {"print_traits", "done"}
            /\ CountOf("tokenTraits") + CountOf("buildSVG") = 1
            /\ Returned => exit_status = 0

C3_Witness ==
    /\ type = "traits"
    /\ Returned
    /\ exit_status = 0
    /\ calls = <<Op("is_connected", TRUE), Op("tokenTraits", TRUE)>>

\* the remote operations the selected mode needs, in order
RequiredCalls ==
    IF type = "traits" THEN <<"is_connected", "tokenTraits">>
    ELSE <<"is_connected", "tokenTraits", "buildSVG">>

SomeCallFailed == \E i \in 1..Len(calls) : ~calls[i].ok

\* C4: the value returned is 0, 1 or 2, decided by the first failing step: 2
\* exactly when the token id or the address is invalid, 1 exactly when both
\* are valid and is_connected, tokenTraits or (json/blob) buildSVG failed, 0
\* exactly when both are valid and every call the mode needs succeeded.
\* Nothing is retried: a failed call is the last one, tokenTraits and
\* buildSVG are each called at most once, and the message for a failed
\* contract call names the method and the token id.
C4_ExitStatus ==
    /\ CountOf("tokenTraits") <= 1
    /\ CountOf("buildSVG") <= 1
    /\ \A i \in 1..Len(calls) : ~calls[i].ok => (i = Len(calls) /\ Returned)
    /\ Returned =>
        /\ exit_status \in {0, 1, 2}
        /\ exit_status = 2 <=> ~(ValidTokenId /\ ValidAddress)
        /\ exit_status = 1 <=> (ValidTokenId /\ ValidAddress /\ SomeCallFailed)
        /\ exit_status = 0 <=>
            /\ ValidTokenId /\ ValidAddress
            /\ CallNames = RequiredCalls
            /\ ~SomeCallFailed
        /\ \A i \in 1..Len(calls) :
            (~calls[i].ok /\ calls[i].op \in {"tokenTraits", "buildSVG"}) =>
                Contains(stderr, calls[i].op \o "(" \o ToString(token_id) \o ") call failed")

C4_Witness ==
    /\ Returned
    /\ exit_status = 1
    /\ type = "json"
    /\ token_id = 2222
    /\ calls = <<Op("is_connected", TRUE), Op("tokenTraits", TRUE), Op("buildSVG", FALSE)>>
    /\ Contains(stderr, "buildSVG(2222)")

\* the opening of the document each output type prints
DocumentOpening ==
    CASE type = "traits" -> "{\n  \"tokenId\": "
      [] type = "json" -> "{\n  \"name\": "
      [] type = "blob" -> JsonPrefix

\* C5: stdout is all-or-nothing: nothing is written before main returns;
\* when it returns 0 stdout holds exactly one document of the shape the type
\* selects, ended by a single newline; when it returns 1 or 2 stdout is empty
\* (also when tokenTraits succeeded and buildSVG failed); stderr is written
\* only when the value returned is not 0.
C5_StdoutAllOrNothing ==
    /\ ~Returned => (stdout = "" /\ stderr = "")
    /\ (Returned /\ exit_status # 0) => (stdout = "" /\ stderr # "")
    /\ (Returned /\ exit_status = 0) =>
        /\ stderr = ""
        /\ EndsWith(stdout, "\n")
        /\ ~EndsWith(stdout, "\n\n")
        /\ StartsWith(stdout, DocumentOpening)
        /\ type \in {"traits", "json"} => EndsWith(stdout, "\n}\n")
        /\ type = "blob" => (~Contains(StdoutDocument, "\n") /\ B64Decodable(BlobPayload))

C5_Witness ==
    /\ Returned
    /\ exit_status = 1
    /\ type = "blob"
    /\ calls = <<Op("is_connected", TRUE), Op("tokenTraits", TRUE), Op("buildSVG", FALSE)>>
    /\ attributes # <<>>
    /\ stdout = ""
    /\ stderr # ""

C5_WitnessDocument ==
    /\ Returned
    /\ exit_status = 0
    /\ type = "json"
    /\ EndsWith(stdout, "\"\n}\n")

\* the value an index of the i-th table must be shown as
ExpectedValue(arr, idx) ==
    IF idx \in 0..(Len(arr) - 1) THEN arr[idx + 1]
    ELSE "Unknown(" \o ToString(idx) \o ")"

\* C6: for every 5-tuple of trait values build_attributes returns exactly 5
\* attributes, named Background, Fur, Eyes, Hat, Special in this order, the
\* i-th value looked up in the i-th table with the i-th element of the tuple;
\* for (0, 0, 0, 0, 0) the values are Trade, Alien, None, None, None.
C6_BuildAttributes ==
    (call.fn = "build_attributes" /\ ret # <<>>) =>
        LET attrs == ret[1]
            tt == call.traits_tuple
        IN  /\ Len(attrs) = 5
            /\ [i \in 1..5 |-> attrs[i].trait_type]
                    = <<"Background", "Fur", "Eyes", "Hat", "Special">>
            /\ \A i \in 1..5 : attrs[i].value = ExpectedValue(TraitTables[i], tt[i])
            /\ tt = <<0, 0, 0, 0, 0>> =>
                [i \in 1..5 |-> attrs[i].value] = <<"Trade", "Alien", "None", "None", "None">>

C6_Witness ==
    /\ call.fn = "build_attributes"
    /\ call.traits_tuple = <<-1, 0, 23, 32, 5>>
    /\ ret = << <<Attribute("Background", "Unknown(-1)"), Attribute("Fur", "Alien"),
                  Attribute("Eyes", "Yeeti"), Attribute("Hat", "Unknown(32)"),
                  Attribute("Special", "Vape")>> >>

\* C7: pick_trait never fails: it returns arr[idx] (zero-based) when
\* 0 <= idx < len(arr), and Unknown(<idx>) with the index in decimal for every
\* other idx, len(arr) itself included; a negative idx never selects an entry
\* counted from the end of the table.
C7_PickTrait ==
    (call.fn = "pick_trait" /\ ret # <<>>) =>
        /\ ret[1] # IndexError
        /\ ret[1] = ExpectedValue(call.arr, call.idx)
        /\ call.idx = Len(call.arr) => StartsWith(ret[1], "Unknown(")
        /\ call.idx < 0 => \A i \in 1..Len(call.arr) : ret[1] # call.arr[i]

C7_Witness ==
    /\ call.fn = "pick_trait"
    /\ call.arr = SPECIAL_TRAITS
    /\ call.idx = 999
    /\ ret = <<"Unknown(999)">>

C7_WitnessNegative ==
    /\ call.fn = "pick_trait"
    /\ call.idx = -1
    /\ ret = <<"Unknown(-1)">>

\* C8: in blob mode the output is data:application/json;base64, followed by a
\* base64 payload that decodes to exactly the compact serialization (no
\* whitespace between tokens) of the metadata object json mode prints for the
\* same token id, trait tuple and SVG string.
C8_BlobDecodesToCompactJson ==
    (Returned /\ exit_status = 0 /\ type = "blob") =>
        /\ StartsWith(stdout, JsonPrefix)
        /\ B64Decodable(BlobPayload)
        /\ AsciiDecode(B64Decode(BlobPayload))
                = JsonMinify(json_document(token_id, build_attributes(token_id, traits_tuple), svg))

C8_Witness ==
    /\ Returned
    /\ exit_status = 0
    /\ type = "blob"
    /\ traits_tuple = <<1, 2, 3, 4, 5>>
    /\ Len(svg) = MaxSvgLen
    /\ StartsWith(AsciiDecode(B64Decode(BlobPayload)), "{\"name\":\"Tiny Hyper Cat #")

\* the JSON text of the metadata object that was output
PrintedMetadata ==
    IF type = "blob" THEN AsciiDecode(B64Decode(BlobPayload)) ELSE StdoutDocument

\* the image field in that text, after "image" and its key separator
PrintedImage ==
    QuotedAfter(PrintedMetadata,
                IF type = "blob" THEN "\"image\":\"" ELSE "\"image\": \"")

ImagePrefix == "data:image/svg+xml;base64,"

\* C9: the image field of the metadata printed in json mode, and embedded in
\* blob mode, is data:image/svg+xml;base64, followed by base64 text that
\* decodes to exactly the SVG string buildSVG returned.
C9_ImageIsBase64OfSvg ==
    (Returned /\ exit_status = 0 /\ type \in {"json", "blob"}) =>
        /\ StartsWith(PrintedImage, ImagePrefix)
        /\ LET payload == SubSeq(PrintedImage, Len(ImagePrefix) + 1, Len(PrintedImage))
           IN  /\ B64Decodable(payload)
               /\ Utf8Decode(B64Decode(payload)) = svg

C9_Witness ==
    /\ Returned
    /\ exit_status = 0
    /\ type = "json"
    /\ svg = <<60, 8364>>
    /\ PrintedImage = "data:image/svg+xml;base64,POKCrA=="

\* the place of each step in the order token-id check, address check,
\* connectivity check, tokenTraits, buildSVG, output
StepRank(p) ==
    CASE p = "token_id" -> 1
      [] p = "address" -> 2
      [] p = "connect" -> 3
      [] p = "tokenTraits" -> 4
      [] p = "buildSVG" -> 5
      [] p \in {"print_traits", "print_meta"} -> 6
      [] p = "done" -> 7

C10_Gated ==
    /\ Len(calls) <= 3
    /\ CallNames = SubSeq(<<"is_connected", "tokenTraits", "buildSVG">>, 1, Len(calls))
    /\ calls # <<>> => (ValidTokenId /\ ValidAddress)
    /\ StepRank(pc) > 2 /\ ~Returned => (ValidTokenId /\ ValidAddress)
    /\ CountOf("tokenTraits") > 0 => calls[1] = Op("is_connected", TRUE)
    /\ CountOf("buildSVG") > 0 => (calls[2] = Op("tokenTraits", TRUE) /\ type # "traits")
    /\ stdout # "" => (CallNames = RequiredCalls /\ ~SomeCallFailed)
    /\ (Returned /\ ~ValidTokenId) =>
        /\ Contains(stderr, "tokenId out of range")
        /\ ~Contains(stderr, "CONTRACT_ADDRESS")

\* C10: the steps of an invocation happen in the order token-id check, address
\* check, connectivity check, tokenTraits, (json/blob) buildSVG, output, each
\* only after all earlier ones succeeded: tokenTraits only after a successful
\* connectivity check, buildSVG only after a successful tokenTraits, and with
\* both the token id and the address invalid the token-id error is reported.
C10_StepOrder ==
    /\ []C10_Gated
    /\ [][StepRank(pc') > StepRank(pc)]_vars

C10_Witness ==
    /\ Returned
    /\ ~ValidTokenId
    /\ ~ValidAddress
    /\ Contains(stderr, "tokenId out of range")

C10_WitnessAllSteps ==
    /\ Returned
    /\ type = "json"
    /\ calls = <<Op("is_connected", TRUE), Op("tokenTraits", TRUE), Op("buildSVG", TRUE)>>
    /\ stdout # ""

=============================================================================
